---- MODULE Spec2Model ----
(***************************************************************************)
(* A model of MidiKraft-librarian's PatchHolder.cpp: the category          *)
(* bookkeeping of PatchHolder (categories_, userDecisions_,                *)
(* autoCategorizeAgain), the Favorite tri-state, and the SourceInfo        *)
(* provenance records with their JSON (de)serialization and display        *)
(* strings.                                                                *)
(***************************************************************************)
EXTENDS Integers, Sequences, FiniteSets, TLC

VARIABLES
    \* ---- PatchHolder ----
    categories_,      \* std::set<Category> PatchHolder::categories_
    userDecisions_,   \* std::set<Category> PatchHolder::userDecisions_
    isFavorite_,      \* Favorite PatchHolder::isFavorite_ (its favorite_ member)
    lastOp,           \* the PatchHolder member function that ran last
    previous,         \* local 'previous' of the last autoCategorizeAgain
    newCategories,    \* local 'newCategories' of the last autoCategorizeAgain
    changed,          \* return value of the last autoCategorizeAgain
    repeated,         \* the last autoCategorizeAgain directly followed another
                      \* one that got the same classifier output
    howFavorite,      \* argument of the last Favorite(int)
    jassertFailed,    \* the last Favorite(int) executed jassert(false)
    \* ---- SourceInfo ----
    sourceInfo,       \* the SourceInfo object last constructed (or NullInfo)
    str,              \* the std::string handed to SourceInfo::fromString
    strOrigin,        \* where str came from: "none", "toString", "crafted", "raw"
    parsed,           \* outcome of the last SourceInfo::fromString(str)
    srcOp,            \* the SourceInfo operation that ran last
    \* ---- SourceInfo::toDisplayString ----
    dispSynth,        \* the capabilities of the Synth* argument
    dispShort,        \* the shortVersion argument
    display           \* the returned display string (or NoDisplay)

holderVars == <<categories_, userDecisions_, isFavorite_, lastOp, previous,
                newCategories, changed, repeated, howFavorite, jassertFailed>>
sourceVars == <<sourceInfo, str, strOrigin, parsed, srcOp>>
displayVars == <<dispSynth, dispShort, display>>
vars == <<holderVars, sourceVars, displayVars>>

(***************************************************************************)
(* Bounds                                                                  *)
(***************************************************************************)
NumCategories == 3      \* number of category definitions in the registry
MaxFavoriteInt == 5     \* integers handed to Favorite(int) range over -2..MaxFavoriteInt

\* A Category is identified by the id of its definition only
\* (operator== and operator< ignore name and colour).
Categories == 1..NumCategories

FavoriteInts == (-2)..MaxFavoriteInt

(***************************************************************************)
(* PatchHolder: category mutators                                          *)
(***************************************************************************)
hasCategory(cats, category) == category \in cats

setCategory(cats, category, hasIt) ==
    IF ~hasIt
    THEN IF hasCategory(cats, category) THEN cats \ {category} ELSE cats
    ELSE cats \cup {category}

setCategories(cats, newCats) == newCats

clearCategories(cats) == {}

\* variant: the clicked category replaces the set
setUserDecision_assign(ud, clicked) == {clicked}

setUserDecision(ud, clicked) == ud \cup {clicked}

setUserDecisions(ud, cats) == cats

(***************************************************************************)
(* PatchHolder::autoCategorizeAgain.  cats is categories_ on entry, ud is  *)
(* userDecisions_, detected is what determineAutomaticCategories returns.  *)
(* The result holds categories_ on exit and the returned flag.             *)
(***************************************************************************)
\* first loop: insert every detected category that has no user decision
insertDetected(cats, ud, detected) ==
    cats \cup {n \in detected : n \notin ud}

\* second loop: erase every category of 'previous' the detector dropped,
\* unless there is a user decision on it
eraseDropped(cats, prev, ud, detected) ==
    cats \ {o \in prev : o \notin detected /\ o \notin ud}

\* variant: the first loop inserts without looking at userDecisions_
autoCategorizeAgain_noLock(cats, ud, detected) ==
    LET prev == cats
        result == eraseDropped(cats \cup detected, prev, ud, detected)
    IN  IF prev # detected
        THEN [categories |-> result, ret |-> prev # result]
        ELSE [categories |-> cats, ret |-> FALSE]

\* variant: the second loop is missing
autoCategorizeAgain_noErase(cats, ud, detected) ==
    LET prev == cats
        result == insertDetected(cats, ud, detected)
    IN  IF prev # detected
        THEN [categories |-> result, ret |-> prev # result]
        ELSE [categories |-> cats, ret |-> FALSE]

\* variant: the merging branch returns true without comparing the sets
autoCategorizeAgain_retDetectorDiffers(cats, ud, detected) ==
    LET prev == cats
        result == eraseDropped(insertDetected(cats, ud, detected), prev, ud, detected)
    IN  IF prev # detected
        THEN [categories |-> result, ret |-> TRUE]
        ELSE [categories |-> cats, ret |-> FALSE]

\* variant: the test of the second loop is inverted (find(o) != end())
autoCategorizeAgain_eraseFromDetected(cats, ud, detected) ==
    LET prev == cats
        result == insertDetected(cats, ud, detected)
                     \ {o \in detected : o \in prev /\ o \notin ud}
    IN  IF prev # detected
        THEN [categories |-> result, ret |-> prev # result]
        ELSE [categories |-> cats, ret |-> FALSE]

autoCategorizeAgain(cats, ud, detected) ==
    LET prev == cats
        result == eraseDropped(insertDetected(cats, ud, detected), prev, ud, detected)
    IN  IF prev # detected
        THEN [categories |-> result, ret |-> prev # result]
        ELSE [categories |-> cats, ret |-> FALSE]

(***************************************************************************)
(* Favorite::Favorite(int)                                                 *)
(***************************************************************************)
\* variant: no default branch, everything but -1 and 0 is YES
FavoriteFromInt_noDefault(h) ==
    IF h = -1 THEN [favorite |-> "DONTKNOW", jassert |-> FALSE]
    ELSE IF h = 0 THEN [favorite |-> "NO", jassert |-> FALSE]
    ELSE [favorite |-> "YES", jassert |-> h # 1]

FavoriteFromInt(h) ==
    IF h = -1 THEN [favorite |-> "DONTKNOW", jassert |-> FALSE]
    ELSE IF h = 0 THEN [favorite |-> "NO", jassert |-> FALSE]
    ELSE IF h = 1 THEN [favorite |-> "YES", jassert |-> FALSE]
    ELSE [favorite |-> "DONTKNOW", jassert |-> TRUE]   \* default: jassert(false)

(***************************************************************************)
(* PatchHolder state machine                                               *)
(***************************************************************************)
NoLocals == /\ previous' = {}
            /\ newCategories' = {}
            /\ changed' = FALSE
            /\ repeated' = FALSE

HolderInit ==
    /\ categories_ \in SUBSET Categories   \* constructor, with or without detector
    /\ userDecisions_ = {}
    /\ isFavorite_ = "DONTKNOW"
    /\ lastOp = "PatchHolder"
    /\ previous = {}
    /\ newCategories = {}
    /\ changed = FALSE
    /\ repeated = FALSE
    /\ howFavorite = -1
    /\ jassertFailed = FALSE

SetCategory ==
    \E category \in Categories, hasIt \in BOOLEAN :
        /\ categories_' = setCategory(categories_, category, hasIt)
        /\ lastOp' = "setCategory"
        /\ NoLocals
        /\ UNCHANGED <<userDecisions_, isFavorite_, howFavorite, jassertFailed>>
        /\ UNCHANGED <<sourceVars, displayVars>>

SetCategories ==
    \E cats \in SUBSET Categories :
        /\ categories_' = setCategories(categories_, cats)
        /\ lastOp' = "setCategories"
        /\ NoLocals
        /\ UNCHANGED <<userDecisions_, isFavorite_, howFavorite, jassertFailed>>
        /\ UNCHANGED <<sourceVars, displayVars>>

ClearCategories ==
    /\ categories_' = clearCategories(categories_)
    /\ lastOp' = "clearCategories"
    /\ NoLocals
    /\ UNCHANGED <<userDecisions_, isFavorite_, howFavorite, jassertFailed>>
        /\ UNCHANGED <<sourceVars, displayVars>>

SetUserDecision ==
    \E clicked \in Categories :
        /\ userDecisions_' = setUserDecision(userDecisions_, clicked)
        /\ lastOp' = "setUserDecision"
        /\ NoLocals
        /\ UNCHANGED <<categories_, isFavorite_, howFavorite, jassertFailed>>
        /\ UNCHANGED <<sourceVars, displayVars>>

SetUserDecisions ==
    \E cats \in SUBSET Categories :
        /\ userDecisions_' = setUserDecisions(userDecisions_, cats)
        /\ lastOp' = "setUserDecisions"
        /\ NoLocals
        /\ UNCHANGED <<categories_, isFavorite_, howFavorite, jassertFailed>>
        /\ UNCHANGED <<sourceVars, displayVars>>

AutoCategorizeAgain ==
    \E detected \in SUBSET Categories :
        LET r == autoCategorizeAgain(categories_, userDecisions_, detected)
        IN  /\ previous' = categories_
            /\ newCategories' = detected
            /\ categories_' = r.categories
            /\ changed' = r.ret
            /\ repeated' = (lastOp = "autoCategorizeAgain" /\ newCategories = detected)
            /\ lastOp' = "autoCategorizeAgain"
            /\ UNCHANGED <<userDecisions_, isFavorite_, howFavorite, jassertFailed>>
        /\ UNCHANGED <<sourceVars, displayVars>>

SetFavorite ==
    \E h \in FavoriteInts :
        LET f == FavoriteFromInt(h)
        IN  /\ isFavorite_' = f.favorite
            /\ howFavorite' = h
            /\ jassertFailed' = f.jassert
            /\ lastOp' = "setFavorite"
            /\ NoLocals
            /\ UNCHANGED <<categories_, userDecisions_>>
            /\ UNCHANGED <<sourceVars, displayVars>>

HolderNext ==
    \/ SetCategory
    \/ SetCategories
    \/ ClearCategories
    \/ SetUserDecision
    \/ SetUserDecisions
    \/ AutoCategorizeAgain
    \/ SetFavorite

(***************************************************************************)
(* Strings and JSON documents                                              *)
(*                                                                         *)
(* A std::string is one of                                                 *)
(*   [k |-> "chars", c |-> ...]      text that is not a JSON document      *)
(*   [k |-> "iso8601", sec, ms]      an ISO-8601 time, to the millisecond  *)
(*   [k |-> "json", v |-> value]     the rendering of a JSON value         *)
(* A JSON value is [t |-> "bool"|"int"|"str"|"obj"|"array"|"null", ...];   *)
(* an object keeps its members as a sequence of [name, value], in the      *)
(* order of the text, as rapidjson does.                                   *)
(***************************************************************************)
Chars(c) == [k |-> "chars", c |-> c]

JBool(b) == [t |-> "bool", b |-> b]
JInt(i) == [t |-> "int", i |-> i]
JStr(s) == [t |-> "str", s |-> s]
JObj(members) == [t |-> "obj", m |-> members]
JArray == [t |-> "array"]
JNull == [t |-> "null"]
Member(name, value) == [name |-> name, value |-> value]

\* doc.AddMember(name, value, allocator)
AddMember(doc, name, value) == JObj(Append(doc.m, Member(name, value)))

\* doc.SetObject()
SetObject == JObj(<<>>)

\* renderToJson(doc): the text of the document
renderToJson(doc) == [k |-> "json", v |-> doc]

\* the document after doc.Parse(text): text that is not JSON leaves a
\* document with a parse error, which is not an object
ParseErrorDoc == [t |-> "parseerror"]
Parse(text) == IF text.k = "json" THEN text.v ELSE ParseErrorDoc

IsObject(doc) == doc.t = "obj"
IsString(value) == value.t = "str"
IsInt(value) == value.t = "int"

HasMember(obj, name) == \E i \in 1..Len(obj.m) : obj.m[i].name = name

\* obj.FindMember(name): the first member of that name, or MemberEnd()
MemberEnd == [name |-> "<end>", value |-> [t |-> "end"]]
FindMember(obj, name) ==
    IF HasMember(obj, name)
    THEN obj.m[CHOOSE i \in 1..Len(obj.m) :
                   /\ obj.m[i].name = name
                   /\ \A j \in 1..(i - 1) : obj.m[j].name # name]
    ELSE MemberEnd

kFileSource == "filesource"
kSynthSource == "synthsource"
kBulkSource == "bulksource"
kFileInBulk == "fileInBulk"
kFileName == "filename"
kFullPath == "fullpath"
kTimeStamp == "timestamp"
kBankNumber == "banknumber"
kProgramNo == "program"

(***************************************************************************)
(* Reading a member the way the fromString functions do:                   *)
(*   obj.FindMember(name).operator*().value.GetString()  (or GetInt()).    *)
(* Dereferencing MemberEnd(), or GetString()/GetInt() on a value of        *)
(* another type, is undefined: with assertions on the process stops        *)
(* (RAPIDJSON_ASSERT), without them the call returns whatever the memory   *)
(* holds.  A read is a set of possible results [ok, v]; ok = FALSE is the  *)
(* process stopping.                                                       *)
(***************************************************************************)
GarbageString == Chars("<garbage>")
GarbageInt == 0

Undefined(garbage) == {[ok |-> FALSE]} \cup {[ok |-> TRUE, v |-> garbage]}

GetString(member) ==
    IF IsString(member.value)
    THEN {[ok |-> TRUE, v |-> member.value.s]}
    ELSE Undefined(GarbageString)

GetInt(member) ==
    IF IsInt(member.value)
    THEN {[ok |-> TRUE, v |-> member.value.i]}
    ELSE Undefined(GarbageInt)

(***************************************************************************)
(* juce::Time (milliseconds since the epoch) and MidiBankNumber            *)
(***************************************************************************)
\* Time::toISO8601(true) writes date, time and milliseconds
toISO8601(time) == [k |-> "iso8601", sec |-> time \div 1000, ms |-> time % 1000]

\* Time::fromISO8601: a string that is no ISO-8601 time gives Time()
fromISO8601(text) ==
    IF text.k = "iso8601" THEN text.sec * 1000 + text.ms ELSE 0

\* Time::formatted("%x at %X"): date and time to the second
formatted(time) == [time |-> time \div 1000]

InvalidBank == [valid |-> FALSE, zeroBased |-> 0]     \* MidiBankNumber::invalid()
fromZeroBase(n) == [valid |-> TRUE, zeroBased |-> n]  \* MidiBankNumber::fromZeroBase
toOneBased(bank) == bank.zeroBased + 1

(***************************************************************************)
(* The SourceInfo classes.  An object is a record of its data members;     *)
(* jsonRep_ is the member SourceInfo::toString returns.                    *)
(***************************************************************************)
NullInfo == [type |-> "nullptr"]

FromFileSource(filename, fullpath, program) ==
    LET d1 == AddMember(SetObject, kFileSource, JBool(TRUE))
        d2 == AddMember(d1, kFileName, JStr(filename))
        d3 == AddMember(d2, kFullPath, JStr(fullpath))
        d4 == AddMember(d3, kProgramNo, JInt(program))
    IN  [type |-> "FromFileSource",
         filename_ |-> filename,
         jsonRep_ |-> renderToJson(d4)]

\* variant: the bank number is not written to the JSON text
FromSynthSource_noBank(timestamp, bankNo) ==
    LET d1 == AddMember(SetObject, kSynthSource, JBool(TRUE))
        d2 == AddMember(d1, kTimeStamp, JStr(toISO8601(timestamp)))
    IN  [type |-> "FromSynthSource",
         timestamp_ |-> timestamp,
         bankNo_ |-> bankNo,
         jsonRep_ |-> renderToJson(d2)]

FromSynthSource(timestamp, bankNo) ==
    LET d1 == AddMember(SetObject, kSynthSource, JBool(TRUE))
        d2 == AddMember(d1, kTimeStamp, JStr(toISO8601(timestamp)))
        d3 == IF bankNo.valid
              THEN AddMember(d2, kBankNumber, JInt(bankNo.zeroBased))
              ELSE d2
    IN  [type |-> "FromSynthSource",
         timestamp_ |-> timestamp,
         bankNo_ |-> bankNo,
         jsonRep_ |-> renderToJson(d3)]

toString(info) == info.jsonRep_

FromBulkImportSource(timestamp, individualInfo) ==
    LET d1 == AddMember(SetObject, kBulkSource, JBool(TRUE))
        d2 == AddMember(d1, kTimeStamp, JStr(toISO8601(timestamp)))
        d3 == IF individualInfo # NullInfo
              THEN AddMember(d2, kFileInBulk, JStr(toString(individualInfo)))
              ELSE d2
    IN  [type |-> "FromBulkImportSource",
         timestamp_ |-> timestamp,
         individualInfo_ |-> individualInfo,
         jsonRep_ |-> renderToJson(d3)]

(***************************************************************************)
(* fromString.  The result is the set of outcomes the call can have:       *)
(*   [status |-> "ok", info |-> object]   a SourceInfo was made            *)
(*   [status |-> "nullptr"]               nullptr was returned             *)
(*   [status |-> "fault"]                 the process stopped in the call  *)
(***************************************************************************)
Returned(info) ==
    IF info = NullInfo THEN [status |-> "nullptr"]
                       ELSE [status |-> "ok", info |-> info]
Nullptr == [status |-> "nullptr"]
Fault == [status |-> "fault"]

\* the shared_ptr an outcome leaves in the caller's variable
PointerOf(outcome) == IF outcome.status = "ok" THEN outcome.info ELSE NullInfo

FromFileSource_fromString(jsonString) ==
    LET doc == Parse(jsonString)
    IN  IF IsObject(doc) /\ HasMember(doc, kFileSource)
        THEN { IF filename.ok /\ fullpath.ok /\ program.ok
               THEN Returned(FromFileSource(filename.v, fullpath.v, program.v))
               ELSE Fault :
                   filename \in GetString(FindMember(doc, kFileName)),
                   fullpath \in GetString(FindMember(doc, kFullPath)),
                   program \in GetInt(FindMember(doc, kProgramNo)) }
        ELSE {Nullptr}

\* 'Time timestamp;' is the epoch; the member, when present, is read as a string
ReadTimeStamp(doc) ==
    IF HasMember(doc, kTimeStamp)
    THEN { IF timestring.ok
           THEN [ok |-> TRUE, v |-> fromISO8601(timestring.v)]
           ELSE timestring :
               timestring \in GetString(FindMember(doc, kTimeStamp)) }
    ELSE {[ok |-> TRUE, v |-> 0]}

FromSynthSource_fromString(jsonString) ==
    LET doc == Parse(jsonString)
    IN  IF IsObject(doc) /\ HasMember(doc, kSynthSource)
        THEN LET bankNos ==
                     IF HasMember(doc, kBankNumber)
                     THEN { IF n.ok THEN [ok |-> TRUE, v |-> fromZeroBase(n.v)]
                                    ELSE n :
                                n \in GetInt(FindMember(doc, kBankNumber)) }
                     ELSE {[ok |-> TRUE, v |-> InvalidBank]}
             IN  { IF timestamp.ok /\ bankNo.ok
                   THEN Returned(FromSynthSource(timestamp.v, bankNo.v))
                   ELSE Fault :
                       timestamp \in ReadTimeStamp(doc), bankNo \in bankNos }
        ELSE {Nullptr}

RECURSIVE SourceInfo_fromString(_)
RECURSIVE FromBulkImportSource_fromString(_)

FromBulkImportSource_fromString(jsonString) ==
    LET doc == Parse(jsonString)
    IN  IF IsObject(doc) /\ HasMember(doc, kBulkSource)
        THEN LET subinfoJson == FindMember(doc, kFileInBulk).value
                 individualInfos ==
                     IF HasMember(doc, kFileInBulk)
                     THEN IF IsString(subinfoJson)
                          THEN SourceInfo_fromString(subinfoJson.s)
                          ELSE SourceInfo_fromString(renderToJson(subinfoJson))
                     ELSE {Nullptr}
             IN  { IF timestamp.ok /\ individualInfo.status # "fault"
                   THEN Returned(FromBulkImportSource(
                            timestamp.v, PointerOf(individualInfo)))
                   ELSE Fault :
                       timestamp \in ReadTimeStamp(doc),
                       individualInfo \in individualInfos }
        ELSE {Nullptr}

\* variant: the discriminators are tested in the opposite order
SourceInfo_fromString_bulkFirst(s) ==
    LET doc == Parse(s)
    IN  IF IsObject(doc)
        THEN IF HasMember(doc, kBulkSource) THEN FromBulkImportSource_fromString(s)
             ELSE IF HasMember(doc, kSynthSource) THEN FromSynthSource_fromString(s)
             ELSE IF HasMember(doc, kFileSource) THEN FromFileSource_fromString(s)
             ELSE {Nullptr}
        ELSE {Nullptr}

SourceInfo_fromString(s) ==
    LET doc == Parse(s)
    IN  IF IsObject(doc)
        THEN IF HasMember(doc, kFileSource) THEN FromFileSource_fromString(s)
             ELSE IF HasMember(doc, kSynthSource) THEN FromSynthSource_fromString(s)
             ELSE IF HasMember(doc, kBulkSource) THEN FromBulkImportSource_fromString(s)
             ELSE {Nullptr}
        ELSE {Nullptr}

(***************************************************************************)
(* toDisplayString.  A display string is the sequence of its pieces:       *)
(* literal text, a bank name taken from the synth, a formatted time.       *)
(***************************************************************************)
Lit(text) == [lit |-> text]
DescriptorName(zeroBased) == [descriptorName |-> zeroBased]   \* banks[i].name
FriendlyBankName(bank) == [friendlyBankName |-> bank.zeroBased]
BankFormat(oneBased) == [bankNumber |-> oneBased]              \* " bank %d"
NoDisplay == <<>>

FromFileSource_toDisplayString(info, synth, shortVersion) ==
    <<Lit("Imported from file "), [string |-> info.filename_]>>

\* the bank part of FromSynthSource::toDisplayString where a synth with
\* bank descriptors falls through to friendlyBankName when out of range
synthBankLabel_fallThrough(bankNo, synth) ==
    IF bankNo.valid
    THEN IF synth.descriptors /\ bankNo.zeroBased < synth.banks
         THEN <<Lit(" "), DescriptorName(bankNo.zeroBased)>>
         ELSE IF synth.bankCapa
              THEN <<Lit(" "), FriendlyBankName(bankNo)>>
              ELSE <<BankFormat(toOneBased(bankNo))>>
    ELSE <<Lit(" edit buffer")>>

synthBankLabel(bankNo, synth) ==
    IF bankNo.valid
    THEN IF synth.descriptors
         THEN IF bankNo.zeroBased < synth.banks
              THEN <<Lit(" "), DescriptorName(bankNo.zeroBased)>>
              ELSE <<BankFormat(toOneBased(bankNo))>>
         ELSE IF synth.bankCapa
              THEN <<Lit(" "), FriendlyBankName(bankNo)>>
              ELSE <<BankFormat(toOneBased(bankNo))>>
    ELSE <<Lit(" edit buffer")>>

FromSynthSource_toDisplayString(info, synth, shortVersion) ==
    LET bank == synthBankLabel(info.bankNo_, synth)
    IN  IF info.timestamp_ # 0
        THEN <<Lit("Imported from synth")>> \o bank
                 \o <<Lit(" on "), formatted(info.timestamp_)>>
        ELSE <<Lit("Imported from synth")>> \o bank

RECURSIVE toDisplayString(_, _, _)

FromBulkImportSource_toDisplayString(info, synth, shortVersion) ==
    IF info.timestamp_ # 0
    THEN IF shortVersion \/ info.individualInfo_ = NullInfo
         THEN <<Lit("Bulk import ("), formatted(info.timestamp_), Lit(")")>>
         ELSE <<Lit("Bulk import "), formatted(info.timestamp_), Lit(" (")>>
                  \o toDisplayString(info.individualInfo_, synth, TRUE)
                  \o <<Lit(")")>>
    ELSE <<Lit("Bulk file import")>>

\* virtual dispatch of SourceInfo::toDisplayString
toDisplayString(info, synth, shortVersion) ==
    IF info.type = "FromFileSource"
    THEN FromFileSource_toDisplayString(info, synth, shortVersion)
    ELSE IF info.type = "FromSynthSource"
    THEN FromSynthSource_toDisplayString(info, synth, shortVersion)
    ELSE FromBulkImportSource_toDisplayString(info, synth, shortVersion)

(***************************************************************************)
(* Bounds and inputs of the SourceInfo state machines                      *)
(***************************************************************************)
MaxProgram == 1        \* program numbers 0..MaxProgram
MaxTimeSec == 1        \* timestamps reach MaxTimeSec seconds and a half
MaxBank == 2           \* bank numbers 0..MaxBank
MaxDescriptors == 2    \* a synth has 0..MaxDescriptors bank descriptors
MaxNesting == 2        \* FromBulkImportSource nested in each other
MaxMembers == 5        \* members of a hand-written JSON object

FileNames == {Chars("a.syx"), Chars("")}
FullPaths == {Chars("/p/a.syx"), Chars("")}
Programs == 0..MaxProgram
Times == {0, 999} \cup {1000 * s + 500 : s \in 1..MaxTimeSec}
BankNumbers == {InvalidBank} \cup {fromZeroBase(n) : n \in 0..MaxBank}
Synths == [descriptors : BOOLEAN, banks : 0..MaxDescriptors, bankCapa : BOOLEAN]

RECURSIVE Nesting(_)
Nesting(info) ==
    IF info.type = "FromBulkImportSource" THEN 1 + Nesting(info.individualInfo_)
    ELSE 0

\* texts that are not JSON objects with members
RawTexts == {Chars(""), Chars("garbage"), renderToJson(SetObject),
             renderToJson(JInt(5)), renderToJson(JArray), renderToJson(JNull),
             renderToJson(JStr(Chars("filesource")))}

EditBufferText == toString(FromSynthSource(0, InvalidBank))

\* the members a hand-written object is put together from
MemberPool ==
    { Member(kFileSource, JBool(TRUE)),
      Member(kSynthSource, JBool(TRUE)),
      Member(kBulkSource, JBool(TRUE)),
      Member(kFileName, JStr(Chars("a.syx"))),
      Member(kFullPath, JStr(Chars("/p/a.syx"))),
      Member(kProgramNo, JInt(1)),
      Member(kTimeStamp, JStr(toISO8601(1500))),
      Member(kTimeStamp, JInt(5)),
      Member(kBankNumber, JInt(1)),
      Member(kFileInBulk, JStr(EditBufferText)),
      Member(kFileInBulk, Parse(EditBufferText)) }

(***************************************************************************)
(* SourceInfo state machine: construct, serialize, write text, parse       *)
(***************************************************************************)
NotParsed == [status |-> "none"]

SourceIdle ==
    /\ sourceInfo = NullInfo
    /\ str = Chars("")
    /\ strOrigin = "none"
    /\ parsed = NotParsed
    /\ srcOp = "none"

DisplayIdle ==
    /\ dispSynth = [descriptors |-> FALSE, banks |-> 0, bankCapa |-> FALSE]
    /\ dispShort = FALSE
    /\ display = NoDisplay

\* what a constructor call leaves besides the new object
Constructed ==
    /\ str' = Chars("")
    /\ strOrigin' = "none"
    /\ parsed' = NotParsed
    /\ srcOp' = "new"
    /\ display' = NoDisplay
    /\ UNCHANGED <<dispSynth, dispShort, holderVars>>

NewFromFileSource ==
    /\ \E filename \in FileNames, fullpath \in FullPaths, program \in Programs :
           sourceInfo' = FromFileSource(filename, fullpath, program)
    /\ Constructed

NewFromSynthSource ==
    /\ \E timestamp \in Times, bankNo \in BankNumbers :
           sourceInfo' = FromSynthSource(timestamp, bankNo)
    /\ Constructed

NewFromBulkImportSource ==
    /\ Nesting(sourceInfo) < MaxNesting
    /\ \E timestamp \in Times, individualInfo \in {NullInfo, sourceInfo} :
           sourceInfo' = FromBulkImportSource(timestamp, individualInfo)
    /\ Constructed

CallToString ==
    /\ sourceInfo # NullInfo
    /\ strOrigin = "none"
    /\ str' = toString(sourceInfo)
    /\ strOrigin' = "toString"
    /\ srcOp' = "toString"
    /\ UNCHANGED <<sourceInfo, parsed, holderVars, displayVars>>

SetRawText ==
    \E text \in RawTexts :
        /\ str' = text
        /\ strOrigin' = "raw"
        /\ sourceInfo' = NullInfo
        /\ parsed' = NotParsed
        /\ srcOp' = "write"
        /\ UNCHANGED <<holderVars, displayVars>>

AppendMember ==
    /\ sourceInfo = NullInfo
    /\ strOrigin \in {"none", "crafted"}
    /\ parsed = NotParsed
    /\ LET doc == IF strOrigin = "none" THEN SetObject ELSE Parse(str)
       IN  /\ Len(doc.m) < MaxMembers
           /\ \E member \in MemberPool :
                  /\ ~HasMember(doc, member.name)
                  /\ str' = renderToJson(AddMember(doc, member.name, member.value))
    /\ strOrigin' = "crafted"
    /\ srcOp' = "write"
    /\ UNCHANGED <<sourceInfo, parsed, holderVars, displayVars>>

FromString ==
    /\ strOrigin # "none"
    /\ parsed = NotParsed
    /\ parsed' \in SourceInfo_fromString(str)
    /\ srcOp' = "fromString"
    /\ UNCHANGED <<sourceInfo, str, strOrigin, holderVars, displayVars>>

SetSynth ==
    \E synth \in Synths :
        /\ dispSynth' = synth
        /\ display' = NoDisplay
        /\ UNCHANGED <<dispShort, holderVars, sourceVars>>

ToDisplayString ==
    /\ sourceInfo # NullInfo
    /\ \E shortVersion \in BOOLEAN :
           /\ dispShort' = shortVersion
           /\ display' = toDisplayString(sourceInfo, dispSynth, shortVersion)
    /\ UNCHANGED <<dispSynth, holderVars, sourceVars>>

HolderIdle ==
    /\ categories_ = {}
    /\ userDecisions_ = {}
    /\ isFavorite_ = "DONTKNOW"
    /\ lastOp = "PatchHolder"
    /\ previous = {}
    /\ newCategories = {}
    /\ changed = FALSE
    /\ repeated = FALSE
    /\ howFavorite = -1
    /\ jassertFailed = FALSE

\* the PatchHolder
Init == HolderInit /\ SourceIdle /\ DisplayIdle
Next == HolderNext
Spec == Init /\ [][Next]_vars

\* SourceInfo: construction, toString, fromString
SourceInit == HolderIdle /\ SourceIdle /\ DisplayIdle
SourceNext ==
    \/ NewFromFileSource
    \/ NewFromSynthSource
    \/ NewFromBulkImportSource
    \/ CallToString
    \/ SetRawText
    \/ AppendMember
    \/ FromString
SpecSource == SourceInit /\ [][SourceNext]_vars

\* SourceInfo: construction and toDisplayString
DisplayNext ==
    \/ NewFromFileSource
    \/ NewFromSynthSource
    \/ NewFromBulkImportSource
    \/ SetSynth
    \/ ToDisplayString
SpecDisplay == SourceInit /\ [][DisplayNext]_vars

(***************************************************************************)
(* Properties of the PatchHolder state machine (checked under Spec)        *)
(***************************************************************************)
afterAuto == lastOp = "autoCategorizeAgain"

\* C1: one call of autoCategorizeAgain leaves the membership in categories_
\* of every category in userDecisions_ exactly as it was on entry: a locked
\* category that was present stays, a locked category that was absent is not
\* added, whatever the classifier returned.
C1_LockSafety ==
    afterAuto =>
        \A c \in userDecisions_ : (c \in categories_) <=> (c \in previous)

C1_Witness ==
    /\ afterAuto
    /\ \E c \in userDecisions_ :
          c \in previous /\ c \notin newCategories /\ c \in categories_
    /\ \E d \in userDecisions_ :
          d \notin previous /\ d \in newCategories /\ d \notin categories_

\* C2: after autoCategorizeAgain with classifier output N every category
\* without a user decision is in categories_ iff it is in N; with no user
\* decisions at all categories_ = N, and from {A} with N = {A,C} the result
\* is {A,C} and the call returns true.
C2_UnlockedFollowClassifier ==
    afterAuto =>
        /\ \A c \in Categories \ userDecisions_ :
              (c \in categories_) <=> (c \in newCategories)
        /\ (userDecisions_ = {} => categories_ = newCategories)
        /\ (userDecisions_ = {} /\ previous = {1} /\ newCategories = {1, 3})
              => (categories_ = {1, 3} /\ changed)

C2_Witness ==
    /\ afterAuto
    /\ userDecisions_ = {}
    /\ previous = {1}
    /\ newCategories = {1, 3}
    /\ categories_ = {1, 3}
    /\ changed

\* C3: autoCategorizeAgain returns true iff categories_ after the call
\* differs from categories_ before it; when the classifier output equals
\* the set on entry the call changes nothing and returns false.
C3_ChangedFlagExact ==
    afterAuto =>
        /\ changed <=> (categories_ # previous)
        /\ (newCategories = previous => (categories_ = previous /\ ~changed))

\* the classifier disagrees with the set on entry, but every differing
\* category is locked, so nothing changes and false is returned
C3_Witness ==
    /\ afterAuto
    /\ newCategories # previous
    /\ categories_ = previous
    /\ ~changed

\* C4: a second autoCategorizeAgain with the same classifier output, with no
\* other PatchHolder call in between, leaves categories_ as the first call
\* left it and returns false.
C4_Idempotent ==
    repeated => (categories_ = previous /\ ~changed)

\* the second call takes the merging branch (its input differs from the
\* classifier output because of locked categories)
C4_Witness ==
    /\ repeated
    /\ previous # newCategories
    /\ categories_ = previous

\* C5 as stated: no PatchHolder operation ever removes a category from
\* userDecisions_.
C5_OnlyGrows ==
    [][userDecisions_ \subseteq userDecisions_']_vars

\* C5 amended: every PatchHolder operation other than setUserDecisions
\* leaves userDecisions_ a superset of what it was; setUserDecisions
\* replaces the set by its argument.
C5_OnlyGrowsExceptAssignment ==
    [][lastOp' # "setUserDecisions" => userDecisions_ \subseteq userDecisions_']_vars

C5_Witness ==
    /\ lastOp = "setUserDecision"
    /\ Cardinality(userDecisions_) >= 2

\* the value Favorite(int) is documented to decode h to
FavoriteDecoded(h) ==
    IF h = 0 THEN "NO" ELSE IF h = 1 THEN "YES" ELSE "DONTKNOW"

\* C9 as stated: Favorite(int) yields DONTKNOW for -1, NO for 0, YES for 1
\* and DONTKNOW for every other integer, and never reaches an assertion
\* failure.
C9_DefensiveDecode ==
    lastOp = "setFavorite" =>
        /\ isFavorite_ = FavoriteDecoded(howFavorite)
        /\ ~jassertFailed

\* C9 amended: Favorite(int) yields DONTKNOW for -1, NO for 0, YES for 1
\* and DONTKNOW for every other integer; for an integer outside -1..1 it
\* executes jassert(false) before it falls back to DONTKNOW, and for -1, 0
\* and 1 it does not.
C9_DecodeWithAssertion ==
    lastOp = "setFavorite" =>
        /\ isFavorite_ = FavoriteDecoded(howFavorite)
        /\ jassertFailed <=> (howFavorite \notin {-1, 0, 1})

C9_Witness ==
    /\ lastOp = "setFavorite"
    /\ howFavorite = 5
    /\ isFavorite_ = "DONTKNOW"
    /\ jassertFailed

(***************************************************************************)
(* Properties of SourceInfo (de)serialization (checked under SpecSource)   *)
(***************************************************************************)
afterParse == srcOp = "fromString"

\* C6: for every SourceInfo x of every variant (file; synth with zero or
\* non-zero timestamp and valid or invalid bank; bulk import with or without
\* a nested record, nested bulk imports included),
\* SourceInfo::fromString(x.toString()) is a record of the same variant with
\* the same field values, and its toString() equals x.toString().
C6_RoundTrip ==
    (afterParse /\ strOrigin = "toString") =>
        /\ parsed.status = "ok"
        /\ parsed.info.type = sourceInfo.type
        /\ parsed.info = sourceInfo
        /\ toString(parsed.info) = toString(sourceInfo)

\* a bulk import wrapping a bulk import wrapping an edit-buffer import
C6_Witness ==
    /\ afterParse
    /\ strOrigin = "toString"
    /\ parsed.status = "ok"
    /\ Nesting(sourceInfo) = 2
    /\ sourceInfo.individualInfo_.individualInfo_.type = "FromSynthSource"
    /\ ~sourceInfo.individualInfo_.individualInfo_.bankNo_.valid
    /\ sourceInfo.timestamp_ # 0

\* what a record of each variant needs to be well formed (section 6 of the
\* specification): the fields with their types, optional ones may be absent
HasTyped(doc, name, type) ==
    HasMember(doc, name) /\ FindMember(doc, name).value.t = type
OptTyped(doc, name, type) ==
    HasMember(doc, name) => FindMember(doc, name).value.t = type

WellFormedAs(doc, variant) ==
    IF variant = "FromFileSource"
    THEN /\ HasMember(doc, kFileSource)
         /\ HasTyped(doc, kFileName, "str")
         /\ HasTyped(doc, kFullPath, "str")
         /\ HasTyped(doc, kProgramNo, "int")
    ELSE IF variant = "FromSynthSource"
    THEN /\ HasMember(doc, kSynthSource)
         /\ OptTyped(doc, kTimeStamp, "str")
         /\ OptTyped(doc, kBankNumber, "int")
    ELSE /\ HasMember(doc, kBulkSource)
         /\ OptTyped(doc, kTimeStamp, "str")

Variants == {"FromFileSource", "FromSynthSource", "FromBulkImportSource"}

\* text that is not a well-formed record of any variant
Malformed(text) ==
    \/ ~IsObject(Parse(text))
    \/ \A variant \in Variants : ~WellFormedAs(Parse(text), variant)

\* C7: for every text that is not a well-formed record of a variant
\* (unparsable text, the empty string, JSON that is not an object, an object
\* without discriminator, an object with a discriminator that lacks a
\* required field or has it with the wrong type) SourceInfo::fromString
\* returns nullptr and reaches no error, assertion or undefined state.
C7_MalformedYieldsAbsence ==
    (afterParse /\ Malformed(str)) => parsed = Nullptr

Discriminators(doc) ==
    {name \in {kFileSource, kSynthSource, kBulkSource} : HasMember(doc, name)}

\* the variant of the highest-priority discriminator the object carries
TopVariant(doc) ==
    IF HasMember(doc, kFileSource) THEN "FromFileSource"
    ELSE IF HasMember(doc, kSynthSource) THEN "FromSynthSource"
    ELSE "FromBulkImportSource"

\* C8: an object that carries more than one discriminator and is a well-formed
\* record of the variant of its highest-priority discriminator (filesource,
\* then synthsource, then bulksource) parses as that variant, wherever the
\* keys stand in the text.
C8_DiscriminatorPriority ==
    (/\ afterParse
     /\ IsObject(Parse(str))
     /\ Cardinality(Discriminators(Parse(str))) >= 2
     /\ WellFormedAs(Parse(str), TopVariant(Parse(str))))
    => /\ parsed.status = "ok"
       /\ parsed.info.type = TopVariant(Parse(str))

\* bulksource is the first key of the text, filesource comes later
C8_Witness ==
    /\ afterParse
    /\ IsObject(Parse(str))
    /\ Len(Parse(str).m) >= 2
    /\ Parse(str).m[1].name = kBulkSource
    /\ HasMember(Parse(str), kFileSource)
    /\ parsed.status = "ok"
    /\ parsed.info.type = "FromFileSource"

(***************************************************************************)
(* Properties of toDisplayString (checked under SpecDisplay)               *)
(***************************************************************************)
afterSynthDisplay ==
    display # NoDisplay /\ sourceInfo.type = "FromSynthSource"

TimeSuffix(info) ==
    IF info.timestamp_ # 0 THEN <<Lit(" on "), formatted(info.timestamp_)>>
                           ELSE <<>>

InRange(bankNo, synth) == synth.descriptors /\ bankNo.zeroBased < synth.banks

\* the bank label as C10 states it
ClaimedBankLabel(bankNo, synth) ==
    CASE ~bankNo.valid -> <<Lit(" edit buffer")>>
      [] bankNo.valid /\ InRange(bankNo, synth) ->
             <<Lit(" "), DescriptorName(bankNo.zeroBased)>>
      [] bankNo.valid /\ ~InRange(bankNo, synth) /\ synth.bankCapa ->
             <<Lit(" "), FriendlyBankName(bankNo)>>
      [] OTHER -> <<BankFormat(bankNo.zeroBased + 1)>>

\* the bank label as C10 amended states it
AmendedBankLabel(bankNo, synth) ==
    CASE ~bankNo.valid -> <<Lit(" edit buffer")>>
      [] bankNo.valid /\ InRange(bankNo, synth) ->
             <<Lit(" "), DescriptorName(bankNo.zeroBased)>>
      [] bankNo.valid /\ ~synth.descriptors /\ synth.bankCapa ->
             <<Lit(" "), FriendlyBankName(bankNo)>>
      [] OTHER -> <<BankFormat(bankNo.zeroBased + 1)>>

\* C10 as stated: for a valid bank the label comes from the bank-descriptor
\* list when the synth has one and the index is in range, otherwise from
\* friendlyBankName when the synth has that capability (also when it has a
\* descriptor list the index is beyond), otherwise it is "bank <one-based>";
\* an invalid bank gives " edit buffer", and with a zero timestamp the whole
\* string is "Imported from synth edit buffer".
C10_BankLabelPriority ==
    afterSynthDisplay =>
        /\ display = <<Lit("Imported from synth")>>
                        \o ClaimedBankLabel(sourceInfo.bankNo_, dispSynth)
                        \o TimeSuffix(sourceInfo)
        /\ (~sourceInfo.bankNo_.valid /\ sourceInfo.timestamp_ = 0)
              => display = <<Lit("Imported from synth"), Lit(" edit buffer")>>

\* C10 amended: for a valid bank the label comes from the bank-descriptor
\* list when the synth has one and the index is in range; when the synth has
\* a descriptor list and the index is beyond it the label is
\* "bank <one-based>", whether or not the synth has friendlyBankName; a synth
\* without descriptor list gives friendlyBankName when it has that
\* capability and "bank <one-based>" otherwise.  An invalid bank gives
\* " edit buffer", and with a zero timestamp the whole string is
\* "Imported from synth edit buffer".
C10_BankLabelDescriptorsFirst ==
    afterSynthDisplay =>
        /\ display = <<Lit("Imported from synth")>>
                        \o AmendedBankLabel(sourceInfo.bankNo_, dispSynth)
                        \o TimeSuffix(sourceInfo)
        /\ (~sourceInfo.bankNo_.valid /\ sourceInfo.timestamp_ = 0)
              => display = <<Lit("Imported from synth"), Lit(" edit buffer")>>

\* descriptor list and friendlyBankName both there, index beyond the list
C10_Witness ==
    /\ afterSynthDisplay
    /\ sourceInfo.bankNo_.valid
    /\ dispSynth.descriptors
    /\ dispSynth.bankCapa
    /\ sourceInfo.bankNo_.zeroBased >= dispSynth.banks
    /\ display[2] = BankFormat(sourceInfo.bankNo_.zeroBased + 1)

====
